---- MODULE Spec2Model ----
(***************************************************************************)
(* Model of src/src/Canvas.js: the Canvas pixel-buffer object, its filter  *)
(* loops (filter, filterUsingRGBA), blur, getColors, noise, age and the    *)
(* thin filter wrappers.  Loops are modelled one iteration per step, so    *)
(* that the order of pixel writes, commits (putImageData) and draws        *)
(* (drawImage) is observable.                                              *)
(*                                                                         *)
(* Numbers that are not integers in the source are kept as integers of     *)
(* thousandths (0.125 -> 125, 1.0 -> 1000, 0.05 -> 50); the alpha of a     *)
(* colour is kept as a numerator over 255, as line 108 computes it.        *)
(***************************************************************************)
EXTENDS Integers, Sequences, FiniteSets, TLC

\* ---------------------------------------------------------------- bounds
\* Largest pixel count (width * height) of a canvas.
MaxLen == 3
\* Largest positive number of passes given to blur / noise.
MaxPasses == 2
\* Number of method calls made on one Canvas object in a behaviour.
MaxCalls == 1
\* The loop counter of `while (passes--)` is a double: below -2^53 the
\* decrement is absorbed and the counter stays where it is.  FloorDepth is
\* the (scaled down) distance of that floor from zero.
FloorDepth == 2
PassFloor == 0 - FloorDepth
\* The logs of draws and commits of one call stop growing at this length
\* (they only grow past it in a call that never returns).
LogCap == 9 * MaxPasses + MaxLen + 3

\* ------------------------------------------------------- program constants
\* context.globalAlpha = 0.125 (line 156), in thousandths
BlurAlpha == 125
\* context.globalAlpha = 1.0 (line 166), also the 2d context's initial value
FullAlpha == 1000
\* decay default of noise, 0.05 (line 234), in thousandths
NoiseDefaultDecay == 50
\* decay of age, 0.05 (line 247), in thousandths
AgeDecay == 50
\* blur(1) in age (line 248)
AgePasses == 1
\* default of passes in blur (line 155) and noise (line 233)
DefaultPasses == 1

\* --------------------------------------------------------------- values
\* A JavaScript argument value: undefined, a number (n, in thousandths),
\* a string (s) or a function reference (s names the function).
Undef == [kind |-> "undefined", n |-> 0, s |-> ""]
Num(t) == [kind |-> "number", n |-> t, s |-> ""]
IntV(i) == Num(1000 * i)
Str(x) == [kind |-> "string", n |-> 0, s |-> x]
Fn(x) == [kind |-> "function", n |-> 0, s |-> x]
BoolTrue == [kind |-> "boolean", n |-> 1, s |-> ""]

\* JavaScript's !v
Falsy(v) ==
    \/ v.kind = "undefined"
    \/ v.kind = "number" /\ v.n = 0
    \/ v.kind = "string" /\ v.s = ""
    \/ v.kind = "boolean" /\ v.n = 0

\* Type.isInteger / Type.isNumber / Type.isFunction of the Type library
IsInteger(v) == v.kind = "number" /\ v.n % 1000 = 0
IsNumber(v) == v.kind = "number"
IsFunction(v) == v.kind = "function"

\* Math.round(num / den), den > 0: floor(x + 0.5)
MathRound(num, den) == (2 * num + den) \div (2 * den)

Clamp(c) == IF c < 0 THEN 0 ELSE IF c > 255 THEN 255 ELSE c

\* ------------------------------------------------- colour library (external)
\* The filter functions of the global object `$` and the methods of
\* RGBA.prototype that Canvas.js calls by name.
FilterNames == {"invert", "complement", "grayscale", "saturate", "desaturate", "mix", "mutate"}

\* $[name] (line 100)
GlobalLookup(name) == IF name \in FilterNames THEN Fn(name) ELSE Undef
\* RGBA.prototype[name] (line 127)
PrototypeLookup(name) == IF name \in FilterNames THEN Fn(name) ELSE Undef

\* new RGBA(red, green, blue, a / 255): alpha kept as its numerator over 255
RGBA(r, g, b, a) == [red |-> r, green |-> g, blue |-> b, alpha |-> a]

\* An RGB object handed to mix, packed as 0xRRGGBB.
Rgb(packed) == [kind |-> "rgb", n |-> packed, s |-> ""]
ValidColorStrings == {"#000000", "#ffffff"}
\* new RGB(string): the parsed colour, for a string that is a colour
ParseRGB(str) == IF str = "#ffffff" THEN 16777215 ELSE 0

Gray(c) == MathRound(299 * c.red + 587 * c.green + 114 * c.blue, 1000)
Scale(c, m) ==
    LET g == Gray(c)
        ch(v) == Clamp(MathRound(1000 * g + (v - g) * m, 1000))
    IN  [c EXCEPT !.red = ch(c.red), !.green = ch(c.green), !.blue = ch(c.blue)]
Mix(c, o) ==
    LET r == o \div 65536
        g == (o \div 256) % 256
        b == o % 256
    IN  [c EXCEPT !.red = MathRound(c.red + r, 2),
                  !.green = MathRound(c.green + g, 2),
                  !.blue = MathRound(c.blue + b, 2)]
Mutate(c, d, rnd) ==
    LET m == rnd * MathRound(d * 255, 1000)
    IN  [c EXCEPT !.red = Clamp(c.red + m), !.green = Clamp(c.green + m),
                  !.blue = Clamp(c.blue + m)]

\* The colour a filter function (or RGBA method) of the given name makes of
\* `c` with argument `a`; rnd is the outcome of the random source.
ApplyFilter(name, c, a, rnd) ==
    CASE name \in {"invert", "complement"} ->
            [c EXCEPT !.red = 255 - c.red, !.green = 255 - c.green, !.blue = 255 - c.blue]
      [] name = "grayscale" -> Scale(c, 0)
      [] name \in {"saturate", "desaturate"} ->
            IF a.kind = "number" THEN Scale(c, a.n) ELSE c
      [] name = "mix" -> IF a.kind = "rgb" THEN Mix(c, a.n) ELSE c
      [] name = "mutate" -> IF a.kind = "number" THEN Mutate(c, a.n, rnd) ELSE c
      [] OTHER -> c

\* RGBA.toString() and RGBA.toHex().toString(): the histogram keys, as
\* the tuples of the components the string is made of (toHex drops alpha).
RgbaKey(c) == <<c.red, c.green, c.blue, c.alpha>>
HexKey(c) == <<c.red, c.green, c.blue>>

\* ------------------------------------------------------------------ state
VARIABLES
    constructed,  \* the constructor was given a CANVAS element (line 60)
    width, height, length,
    data,         \* content.data: the bytes, 0 .. 4 * length - 1
    surface,      \* the canvas' own pixels and whether drawImage drew over them
    globalAlpha,  \* context.globalAlpha, in thousandths
    pc,           \* where the running call is
    call,         \* the method called last and its arguments
    calls,        \* number of calls made
    func, args, len,      \* locals of filter / filterUsingRGBA
    before,       \* the bytes when the running filter loop began
    passes, decay, x, y,  \* locals of blur / noise
    log,          \* what the running (or last) call did, in order
    result,       \* what getColors returned
    outcome       \* "none", "running", "returned" or "raised"

vars == <<constructed, width, height, length, data, surface, globalAlpha, pc, call,
          calls, func, args, len, before, passes, decay, x, y, log, result, outcome>>

program == <<constructed, width, height, length, data, surface, globalAlpha>>
locals == <<func, args, len, before, passes, decay, x, y>>

\* Colours of the pixels a canvas starts with.
White == <<255, 255, 255, 255>>
Black == <<0, 0, 0, 255>>
Palette == {White, Black}

\* The bytes of a buffer whose pixel i has the colour px[i].
Bytes(n, px) == [k \in 0 .. (4 * n - 1) |-> px[k \div 4][(k % 4) + 1]]

NoCall == [op |-> "none", a |-> Undef, b |-> Undef, rnd |-> 1]
NoResult == [kind |-> "none", out |-> <<>>]

\* The Canvas constructor (lines 59-73) and the prototype's defaults
\* (lines 77-83): length is undefined when no CANVAS element was given.
Init ==
    /\ constructed \in BOOLEAN
    /\ width \in 0 .. MaxLen
    /\ height \in 0 .. MaxLen
    /\ width * height <= MaxLen
    /\ ~constructed => width = 0 /\ height = 0
    /\ length = width * height
    /\ \E px \in [0 .. (width * height - 1) -> Palette] : data = Bytes(width * height, px)
    /\ surface = [pixels |-> data, overdrawn |-> FALSE]
    /\ globalAlpha = FullAlpha
    /\ pc = "idle"
    /\ call = NoCall
    /\ calls = 0
    /\ func = Undef /\ args = Undef /\ len = 0 /\ before = <<>>
    /\ passes = 0 /\ decay = Undef /\ x = 0 /\ y = 0
    /\ log = <<>>
    /\ result = NoResult
    /\ outcome = "none"

\* isSet (lines 89-91): undefined > 0 is false
isSet == constructed /\ length > 0

\* ------------------------------------------------------------ the call log
Ev(e, p, q, r) == [ev |-> e, a |-> p, b |-> q, c |-> r]
PassEv(viaMethod, arg) == Ev("pass", IF viaMethod THEN 1 ELSE 0, arg.n, 0)
WriteEv(i) == Ev("write", i, 0, 0)
CommitEv == Ev("commit", 0, 0, 0)
AlphaEv(v) == Ev("alpha", v, 0, 0)
DrawEv(dx, dy, alpha) == Ev("draw", dx, dy, alpha)
Record(l, e) == IF Len(l) < LogCap THEN Append(l, e) ELSE l

ResetLocals ==
    /\ func' = Undef /\ args' = Undef /\ len' = 0 /\ before' = <<>>
    /\ passes' = 0 /\ decay' = Undef /\ x' = 0 /\ y' = 0

\* A call begins: the log and the result of the call before are dropped.
Begin(op, p, q, rnd) ==
    /\ pc = "idle"
    /\ calls < MaxCalls
    /\ calls' = calls + 1
    /\ call' = [op |-> op, a |-> p, b |-> q, rnd |-> rnd]

\* The call returns to the caller of the Canvas method.
Return(l) ==
    /\ pc' = "idle"
    /\ outcome' = "returned"
    /\ log' = l
    /\ ResetLocals

\* An exception leaves the Canvas method.
Raise(l) ==
    /\ pc' = "idle"
    /\ outcome' = "raised"
    /\ log' = l
    /\ ResetLocals

\* ------------------------------------------- filter and filterUsingRGBA
\* Line 100 (filter) and line 127 (filterUsingRGBA): the function the
\* first argument stands for, Undef when there is none.
ResolveFilter(f) ==
    IF IsFunction(f) THEN f
    ELSE IF f.kind = "string" THEN GlobalLookup(f.s) ELSE Undef
ResolveMethod(f) ==
    IF f.kind = "string" THEN PrototypeLookup(f.s) ELSE Undef

\* Where control goes when filter / filterUsingRGBA returns: into the
\* loop of noise (line 236), on to blur(1) in age (line 248), or back to
\* the caller of a method that ends with the filter call.
AfterFilter(op) ==
    CASE op = "noise" -> "noise_test"
      [] op = "age" -> "age_blur"
      [] OTHER -> "idle"

\* Lines 98-103 and 125-128: the guards of a filter call and the start of
\* its loop.  `op` is the method running, f and a the arguments handed to
\* filter (viaMethod false) or filterUsingRGBA (viaMethod true).
FilterEntry(op, f, a, viaMethod, l) ==
    LET g == IF viaMethod THEN ResolveMethod(f) ELSE ResolveFilter(f)
    IN  IF isSet /\ IsFunction(g)
        THEN /\ pc' = "filter_loop"
             /\ func' = g
             /\ args' = a
             /\ len' = length
             /\ before' = data
             /\ log' = Record(l, PassEv(viaMethod, a))
             /\ outcome' = "running"
        ELSE /\ pc' = AfterFilter(op)
             /\ func' = Undef /\ args' = Undef /\ len' = 0 /\ before' = <<>>
             /\ log' = l
             /\ outcome' = IF AfterFilter(op) = "idle" THEN "returned" ELSE "running"

\* The colour line 108 / 133 reads at byte offset px.
PixelAt(d, px) == RGBA(d[px], d[px + 1], d[px + 2], d[px + 3])

\* Lines 109-112 / 138-141: the bytes written back at offset px.
WriteBack(d, px, color) ==
    [d EXCEPT ![px] = color.red, ![px + 1] = color.green, ![px + 2] = color.blue,
              ![px + 3] = MathRound(color.alpha * 255, 255)]

\* FilterIter with the commit inside the loop body.
FilterIterCommitsEachPixel ==
    /\ pc = "filter_loop"
    /\ len' = len - 1
    /\ IF len - 1 # 0
       THEN LET px == 4 * (len - 1)
                color == ApplyFilter(func.s, PixelAt(data, px), args, call.rnd)
            IN  /\ data' = WriteBack(data, px, color)
                /\ surface' = [pixels |-> data', overdrawn |-> FALSE]
                /\ log' = Record(Record(log, WriteEv(len - 1)), CommitEv)
                /\ pc' = "filter_loop"
       ELSE /\ pc' = "filter_commit"
            /\ UNCHANGED <<data, log, surface>>
    /\ UNCHANGED <<constructed, width, height, length, globalAlpha, call, calls,
                   func, args, before, passes, decay, x, y, result, outcome>>

\* One turn of `while (--len)` (lines 106-113 and 131-142): the decrement,
\* the test, and the body when the test passes.
FilterIter ==
    /\ pc = "filter_loop"
    /\ len' = len - 1
    /\ IF len - 1 # 0
       THEN LET px == 4 * (len - 1)
                color == ApplyFilter(func.s, PixelAt(data, px), args, call.rnd)
            IN  /\ data' = WriteBack(data, px, color)
                /\ log' = Record(log, WriteEv(len - 1))
                /\ pc' = "filter_loop"
       ELSE /\ pc' = "filter_commit"
            /\ UNCHANGED <<data, log>>
    /\ UNCHANGED <<constructed, width, height, length, surface, globalAlpha, call, calls,
                   func, args, before, passes, decay, x, y, result, outcome>>

\* Lines 115 / 144: context.putImageData(this.content, 0, 0), and the
\* return of the filter call.
FilterCommit ==
    /\ pc = "filter_commit"
    /\ surface' = [pixels |-> data, overdrawn |-> FALSE]
    /\ pc' = AfterFilter(call.op)
    /\ log' = Record(log, CommitEv)
    /\ IF AfterFilter(call.op) = "idle"
       THEN outcome' = "returned" /\ ResetLocals
       ELSE /\ outcome' = "running"
            /\ func' = Undef /\ args' = Undef /\ len' = 0 /\ before' = <<>>
            /\ UNCHANGED <<passes, decay, x, y>>
    /\ UNCHANGED <<constructed, width, height, length, data, globalAlpha, call, calls, result>>

\* Canvas.prototype.filter called by the user (lines 98-118).
Filter(f, a) ==
    /\ Begin("filter", f, a, 1)
    /\ FilterEntry("filter", f, a, FALSE, <<>>)
    /\ result' = NoResult
    /\ UNCHANGED <<program, passes, decay, x, y>>

\* Canvas.prototype.filterUsingRGBA called by the user (lines 125-147).
FilterUsingRGBA(f, a, rnd) ==
    /\ Begin("filterUsingRGBA", f, a, rnd)
    /\ FilterEntry("filterUsingRGBA", f, a, TRUE, <<>>)
    /\ result' = NoResult
    /\ UNCHANGED <<program, passes, decay, x, y>>

\* ------------------------------------------------------------------- blur
\* Line 155: passes = !passes || !Type.isInteger(passes) ? 1 : passes
BlurPasses(p) == IF Falsy(p) \/ ~IsInteger(p) THEN DefaultPasses ELSE p.n \div 1000

\* passes-- on a double: the value after the decrement.
Decrement(p) == IF p <= PassFloor THEN p ELSE p - 1

\* BlurEntry without the isSet guard.
BlurEntryUnguarded(p, l) ==
    /\ passes' = BlurPasses(p)
    /\ globalAlpha' = BlurAlpha
    /\ pc' = "blur_test"
    /\ log' = Record(l, AlphaEv(BlurAlpha))
    /\ outcome' = "running"
    /\ UNCHANGED <<func, args, len, before, decay, x, y>>

\* Lines 154-156: the guard of blur, the default of passes and the alpha.
BlurEntry(p, l) ==
    IF isSet
    THEN /\ passes' = BlurPasses(p)
         /\ globalAlpha' = BlurAlpha
         /\ pc' = "blur_test"
         /\ log' = Record(l, AlphaEv(BlurAlpha))
         /\ outcome' = "running"
         /\ UNCHANGED <<func, args, len, before, decay, x, y>>
    ELSE /\ Return(l)
         /\ UNCHANGED globalAlpha

\* Canvas.prototype.blur called by the user (lines 153-168).
Blur(p) ==
    /\ Begin("blur", p, Undef, 1)
    /\ BlurEntry(p, <<>>)
    /\ result' = NoResult
    /\ UNCHANGED <<constructed, width, height, length, data, surface>>

\* Line 158: while (passes--), and the start of the for loops (159-160).
BlurTest ==
    /\ pc = "blur_test"
    /\ passes' = Decrement(passes)
    /\ IF passes # 0
       THEN pc' = "blur_draw" /\ x' = -1 /\ y' = -1
       ELSE pc' = "blur_restore" /\ UNCHANGED <<x, y>>
    /\ UNCHANGED <<program, call, calls, func, args, len, before, decay, log, result, outcome>>

\* Lines 159-163: one drawImage(this.element, x, y) that succeeds, and the
\* loop increments that follow it.
BlurDraw ==
    /\ pc = "blur_draw"
    /\ surface' = [surface EXCEPT !.overdrawn = TRUE]
    /\ log' = Record(log, DrawEv(x, y, globalAlpha))
    /\ IF y + 1 < 2
       THEN y' = y + 1 /\ UNCHANGED <<x, pc>>
       ELSE IF x + 1 < 2
            THEN x' = x + 1 /\ y' = -1 /\ UNCHANGED pc
            ELSE pc' = "blur_test" /\ UNCHANGED <<x, y>>
    /\ UNCHANGED <<constructed, width, height, length, data, globalAlpha, call, calls,
                   func, args, len, before, passes, decay, result, outcome>>

\* Line 161: drawImage raises (the 2d context raises InvalidStateError for
\* an element it cannot draw); the exception leaves blur, and age.
BlurDrawRaise ==
    /\ pc = "blur_draw"
    /\ Raise(log)
    /\ UNCHANGED <<program, call, calls, result>>

\* Line 166: this.context.globalAlpha = 1.0, and the return of blur.
BlurRestore ==
    /\ pc = "blur_restore"
    /\ globalAlpha' = FullAlpha
    /\ Return(Record(log, AlphaEv(FullAlpha)))
    /\ UNCHANGED <<constructed, width, height, length, data, surface, call, calls, result>>

\* ------------------------------------------------------------------ noise
\* NoisePasses that ignores the argument.
NoisePassesIgnored(p) == DefaultPasses

\* Line 233
NoisePasses(p) == IF Falsy(p) \/ ~IsInteger(p) THEN DefaultPasses ELSE p.n \div 1000
\* Line 234: decay = !decay || !Type.isNumber(decay) ? 0.05 : decay
NoiseDecay(d) == IF Falsy(d) \/ ~IsNumber(d) THEN Num(NoiseDefaultDecay) ELSE d

\* Canvas.prototype.noise called by the user (lines 231-235).
Noise(p, d, rnd) ==
    /\ Begin("noise", p, d, rnd)
    /\ IF isSet
       THEN /\ passes' = NoisePasses(p)
            /\ decay' = NoiseDecay(d)
            /\ pc' = "noise_test"
            /\ log' = <<>>
            /\ outcome' = "running"
            /\ UNCHANGED <<func, args, len, before, x, y>>
       ELSE Return(<<>>)
    /\ result' = NoResult
    /\ UNCHANGED program

\* Lines 236-238: while (passes--) this.filterUsingRGBA('mutate', decay)
NoiseTest ==
    /\ pc = "noise_test"
    /\ IF passes # 0
       THEN /\ FilterEntry("noise", Str("mutate"), decay, TRUE, log)
            /\ passes' = Decrement(passes)
            /\ UNCHANGED <<decay, x, y>>
       ELSE Return(log)
    /\ UNCHANGED <<program, call, calls, result>>

\* -------------------------------------------------------------------- age
\* Canvas.prototype.age called by the user (lines 245-247): the guard and
\* this.filter(mutate, 0.05).
Age(rnd) ==
    /\ Begin("age", Undef, Undef, rnd)
    /\ IF isSet
       THEN /\ FilterEntry("age", Fn("mutate"), Num(AgeDecay), FALSE, <<>>)
            /\ UNCHANGED <<passes, decay, x, y>>
       ELSE Return(<<>>)
    /\ result' = NoResult
    /\ UNCHANGED program

\* AgeBlur with two blur passes.
AgeBlurTwice ==
    /\ pc = "age_blur"
    /\ BlurEntry(IntV(AgePasses + 1), log)
    /\ UNCHANGED <<constructed, width, height, length, data, surface, call, calls, result>>

\* Line 248: this.blur(1), after the filter call of age returned.
AgeBlur ==
    /\ pc = "age_blur"
    /\ BlurEntry(IntV(AgePasses), log)
    /\ UNCHANGED <<constructed, width, height, length, data, surface, call, calls, result>>

\* -------------------------------------------------------------------- mix
\* Canvas.prototype.mix (lines 256-263): new RGB(color) raises for a
\* string that is no colour.
MixCall(color) ==
    /\ Begin("mix", color, Undef, 1)
    /\ IF isSet
       THEN IF color.kind = "string" /\ color.s \in ValidColorStrings
            THEN /\ FilterEntry("mix", Fn("mix"), Rgb(ParseRGB(color.s)), FALSE, <<>>)
                 /\ UNCHANGED <<passes, decay, x, y>>
            ELSE Raise(<<>>)
       ELSE Return(<<>>)
    /\ result' = NoResult
    /\ UNCHANGED program

\* ----------------------------------------------------- the thin wrappers
\* complement, invert, saturate, desaturate, grayscale (lines 268-300):
\* this.filter(<the global function of that name>, <the argument>).
Wrapper(name, a) ==
    /\ Begin(name, a, Undef, 1)
    /\ FilterEntry(name, Fn(name), a, FALSE, <<>>)
    /\ result' = NoResult
    /\ UNCHANGED <<program, passes, decay, x, y>>

\* -------------------------------------------------------------- getColors
\* Lines 182-192 and 195-196: the key of the colour at byte offset px.
ColorId(d, px, useHex) ==
    IF useHex = BoolTrue THEN HexKey(PixelAt(d, px)) ELSE RgbaKey(PixelAt(d, px))

\* Lines 198-202: push
Push(out, id) ==
    IF id \notin DOMAIN out
    THEN [k \in DOMAIN out \cup {id} |-> IF k = id THEN 1 ELSE out[k]]
    ELSE [out EXCEPT ![id] = out[id] + 1]

\* Lines 205-210: while (--len) { px = 4 * len; push(...) }
RECURSIVE CountLoop(_, _, _, _)
CountLoop(d, l, useHex, out) ==
    IF l - 1 # 0
    THEN CountLoop(d, l - 1, useHex, Push(out, ColorId(d, 4 * (l - 1), useHex)))
    ELSE out

\* Lines 212-218: the entries below minimum are deleted.
Prune(out, minimum) ==
    IF minimum.kind # "undefined" /\ IsInteger(minimum) /\ minimum.n > 0
    THEN [k \in {j \in DOMAIN out : ~(1000 * out[j] < minimum.n)} |-> out[k]]
    ELSE out

\* Canvas.prototype.getColors (lines 176-224): what it returns.
GetColorsValue(useHex, minimum) ==
    IF isSet
    THEN [kind |-> "object", out |-> Prune(CountLoop(data, length, useHex, <<>>), minimum)]
    ELSE [kind |-> "null", out |-> <<>>]

GetColors(useHex, minimum) ==
    /\ Begin("getColors", useHex, minimum, 1)
    /\ result' = GetColorsValue(useHex, minimum)
    /\ Return(<<>>)
    /\ UNCHANGED program

\* ------------------------------------------------------- the calls made
FilterInputs == {Fn("invert"), Str("invert"), Str("nosuch"), Undef}
MethodInputs == {Str("invert"), Str("mutate"), Str("nosuch"), Fn("invert")}
PassesInputs == {Undef, Num(1500), IntV(-1)} \cup {IntV(i) : i \in 0 .. MaxPasses}
DecayInputs == {Undef, Num(500), Num(1000)}
MinimumInputs == {Undef, Num(1500)} \cup {IntV(i) : i \in 0 .. MaxLen}
UseHexInputs == {BoolTrue, Undef}
ColorInputs == {Str("#000000"), Str("bogus")}
MultiplierInputs == {Num(500), Num(2000)}
RandomOutcomes == {-1, 1}

Next ==
    \/ \E f \in FilterInputs : Filter(f, Undef)
    \/ \E f \in MethodInputs, r \in RandomOutcomes : FilterUsingRGBA(f, Num(1000), r)
    \/ FilterIter
    \/ FilterCommit
    \/ \E p \in PassesInputs : Blur(p)
    \/ BlurTest
    \/ BlurDraw
    \/ BlurDrawRaise
    \/ BlurRestore
    \/ \E p \in PassesInputs, d \in DecayInputs, r \in RandomOutcomes : Noise(p, d, r)
    \/ NoiseTest
    \/ \E r \in RandomOutcomes : Age(r)
    \/ AgeBlur
    \/ \E c \in ColorInputs : MixCall(c)
    \/ \E n \in {"complement", "invert", "grayscale"} : Wrapper(n, Undef)
    \/ \E n \in {"saturate", "desaturate"}, m \in MultiplierInputs : Wrapper(n, m)
    \/ \E h \in UseHexInputs, m \in MinimumInputs : GetColors(h, m)

\* The steps of a running call: the program is single threaded and a call
\* runs on until it returns or raises.
Step ==
    \/ FilterIter \/ FilterCommit \/ BlurTest \/ BlurDraw \/ BlurDrawRaise
    \/ BlurRestore \/ NoiseTest \/ AgeBlur

Spec == Init /\ [][Next]_vars
FairSpec == Spec /\ WF_vars(Step)

TypeOK ==
    /\ pc \in {"idle", "filter_loop", "filter_commit", "blur_test", "blur_draw",
               "blur_restore", "noise_test", "age_blur"}
    /\ outcome \in {"none", "running", "returned", "raised"}
    /\ calls \in 0 .. MaxCalls
    /\ globalAlpha \in {BlurAlpha, FullAlpha}
    /\ DOMAIN data = 0 .. (4 * length - 1)
    /\ \A k \in DOMAIN data : data[k] \in 0 .. 255
    /\ Len(log) <= LogCap
    /\ pc = "idle" => locals = <<Undef, Undef, 0, <<>>, 0, Undef, 0, 0>>

\* ================================================================ claims
Events(e) == {i \in DOMAIN log : log[i].ev = e}
Count(e) == Cardinality(Events(e))
\* The log holds everything the call did (it is cut short only in a call
\* that runs on without end).
LogWhole == Len(log) < LogCap
Returned(op) == pc = "idle" /\ outcome = "returned" /\ call.op = op
\* The log entries of the filter loop that began at log index k.
PassOf(k) == {j \in DOMAIN log : j > k /\ \A m \in Events("pass") : ~(k < m /\ m <= j)}
LastPass == CHOOSE k \in Events("pass") : \A m \in Events("pass") : m <= k
InFilterLoop == pc \in {"filter_loop", "filter_commit"}

RECURSIVE SumOver(_, _)
SumOver(f, S) == IF S = {} THEN 0 ELSE LET k == CHOOSE j \in S : TRUE IN f[k] + SumOver(f, S \ {k})

\* How often the colour with key id occurs among all pixels of the buffer.
Occurrences(id, useHex) ==
    Cardinality({i \in 0 .. (length - 1) : ColorId(data, 4 * i, useHex) = id})
AllIds(useHex) == {ColorId(data, 4 * i, useHex) : i \in 0 .. (length - 1)}

\* C1: when the loop of a filter pass is over, every pixel index i in
\* [0, length), index 0 included, was written exactly once in the pass and
\* its four bytes are the filter's result for the bytes it had before.
FilterVisitsEveryPixel ==
    (pc = "filter_commit" /\ LogWhole) =>
        \A i \in 0 .. (length - 1) :
            /\ Cardinality({j \in PassOf(LastPass) : log[j] = WriteEv(i)}) = 1
            /\ PixelAt(data, 4 * i)
                 = PixelAt(WriteBack(before, 4 * i,
                        ApplyFilter(func.s, PixelAt(before, 4 * i), args, call.rnd)), 4 * i)

\* C2: with minimum omitted, the counts getColors returns sum to width * height.
HistogramSumsToPixelCount ==
    (Returned("getColors") /\ isSet /\ call.b = Undef) =>
        SumOver(result.out, DOMAIN result.out) = width * height

\* C3: every filter loop that ran is followed by exactly one commit, which
\* comes after all pixel writes of that loop; while the loop runs nothing
\* is committed; and there is no commit that does not end a filter loop.
CommitOncePerPass ==
    LogWhole =>
        /\ \A k \in Events("pass") :
              LET commits == {j \in PassOf(k) : log[j].ev = "commit"}
                  writes == {j \in PassOf(k) : log[j].ev = "write"}
              IN  /\ IF InFilterLoop /\ k = LastPass
                     THEN commits = {}
                     ELSE Cardinality(commits) = 1
                  /\ \A w \in writes, c \in commits : w < c
        /\ \A c \in Events("commit") : \E k \in Events("pass") : c \in PassOf(k)
        /\ Events("write") # {} => Events("pass") # {}
CommitOncePerPassWitness ==
    /\ Returned("invert")
    /\ Count("write") = 2
    /\ Count("commit") = 1
    /\ log[Len(log)] = CommitEv

\* C4: once blur has set the global alpha to 0.125, the alpha is 1.0 when
\* the call has ended, however it ended.
BlurRestoresAlpha ==
    (pc = "idle" /\ AlphaEv(BlurAlpha) \in {log[i] : i \in DOMAIN log}) => globalAlpha = FullAlpha

\* C5: blur(passes) with a non-negative integer passes has made exactly
\* 9 * passes draws when it returns, and blur(0) has left the surface as it was.
BlurDrawsNinePerPass ==
    (Returned("blur") /\ isSet /\ IsInteger(call.a) /\ call.a.n >= 0) =>
        /\ Count("draw") = 9 * (call.a.n \div 1000)
        /\ call.a.n = 0 => ~surface.overdrawn

\* C6: a call on a buffer that is not operable, and a filter /
\* filterUsingRGBA call whose name stands for no function, changes no byte,
\* commits and draws nothing, leaves the global alpha alone and returns
\* without raising; getColors on such a buffer returns null.
Unresolved(c) ==
    \/ c.op = "filterUsingRGBA" /\ ~(c.a.kind = "string" /\ c.a.s \in FilterNames)
    \/ c.op = "filter" /\ c.a.kind # "function" /\ ~(c.a.kind = "string" /\ c.a.s \in FilterNames)
SilentNoOp ==
    [][(calls' = calls + 1 /\ (~isSet \/ Unresolved(call'))) =>
          /\ data' = data
          /\ surface' = surface
          /\ globalAlpha' = globalAlpha
          /\ log' = <<>>
          /\ pc' = "idle"
          /\ outcome' = "returned"
          /\ (call'.op = "getColors" /\ ~isSet) => result'.kind = "null"
          /\ call'.op # "getColors" => result' = NoResult]_vars
SilentNoOpWitness ==
    /\ ~isSet
    /\ constructed
    /\ Returned("getColors")
    /\ result.kind = "null"

\* C7: with a positive integer minimum, getColors returns exactly the
\* colours that occur at least minimum times among all pixels, each with
\* the number of times it occurs.
HistogramKeepsFrequentColors ==
    (Returned("getColors") /\ isSet /\ IsInteger(call.b) /\ call.b.n > 0) =>
        /\ DOMAIN result.out
             = {id \in AllIds(call.a) : 1000 * Occurrences(id, call.a) >= call.b.n}
        /\ \A id \in DOMAIN result.out : result.out[id] = Occurrences(id, call.a)

\* C8: age makes one filter loop with mutate and decay 0.05, ended by one
\* commit, and then one blur pass of nine draws at global alpha 0.125: the
\* commit comes before every draw, and when age returns the global alpha
\* is 1.0.
NineDraws == [i \in 1 .. 9 |-> DrawEv(((i - 1) \div 3) - 1, ((i - 1) % 3) - 1, 125)]
IsDraw(e) == e.ev = "draw"
NoiseRuns(omitted) ==
    (Returned("noise") /\ isSet) =>
        /\ (IsInteger(call.a) /\ call.a.n > 0) =>
              /\ Count("pass") = call.a.n \div 1000
              /\ Count("commit") = call.a.n \div 1000
        /\ call.a = Undef => Count("pass") = 1 /\ Count("commit") = 1
        /\ (call.b.kind = "number" /\ call.b.n > 0 /\ call.b.n <= 1000) =>
              \A k \in Events("pass") : log[k] = Ev("pass", 1, call.b.n, 0)
        /\ call.b = Undef =>
              \A k \in Events("pass") : log[k] = Ev("pass", 1, omitted, 0)

EveryCallEnds == [](pc # "idle" => <>(pc = "idle"))

====
